---- MODULE Spec2Model ----
(***************************************************************************)
(* A model of flask_discord.models: the model base and its metaclass       *)
(* (base.py), User (user.py) and GuildMember (member.py), together with    *)
(* the process-wide users cache and the Flask session they read and write. *)
(*                                                                         *)
(* Seven specifications share the definitions below:                      *)
(*   SpecAvatar  builds User / GuildMember objects from payloads and       *)
(*               computes their avatar URLs (pure functions);              *)
(*   SpecMeta    declares classes under the DiscordModelsMeta metaclass;   *)
(*   Spec        runs the fetch operations one whole call at a time;       *)
(*   SpecJoin    runs User.fetch_from_api and add_to_guild likewise;       *)
(*   SpecMember  runs User.fetch_from_api and fetch_guild_member, the     *)
(*               member's nick changing between calls;                     *)
(*   SpecConc    runs requests of several sessions interleaved at the      *)
(*               points where a call blocks on HTTP;                       *)
(*   SpecRace    interleaves likewise the calls that assign a guild cache, *)
(*               and keeps a record of the assignments.                    *)
(***************************************************************************)
EXTENDS Integers, Sequences, FiniteSets, TLC

VARIABLES
    built,        \* SpecAvatar: the object built last, with its payload and URL
    classes,      \* SpecMeta: the classes defined so far, name -> [base, route]
    decl,         \* SpecMeta: the class statement executed last and how it ended
    heap,         \* the live User instances, by object identity (allocation number)
    allocated,    \* the number of User instances created so far
    users_cache,  \* current_app.discord.users_cache: user ID -> instance
    session,      \* per browser session: the Flask session's DISCORD_USER_ID
    account,      \* per browser session: the Discord account its OAuth2 token is for
    last,         \* Spec: the call that completed last (operation, arguments, outcome)
    req           \* SpecConc: per request, the call in progress and its position

vars == <<built, classes, decl, heap, allocated, users_cache, session, account, last, req>>

(***************************************************************************)
(* Python values.  None is the empty tuple and any other value v is <<v>>, *)
(* so that None differs from every string, the empty string included.      *)
(* A str is a sequence of one-character strings; a dict with string keys   *)
(* is a function whose domain is the set of keys present.                  *)
(***************************************************************************)
None == <<>>

Some(v) == <<v>>

\* payload.get(key, default)
Get(payload, key, default) ==
    IF key \in DOMAIN payload THEN payload[key] ELSE default

\* bool(v) of an optional str: None and "" are falsy
Truthy(v) == v # None /\ Len(v[1]) > 0

\* s.startswith(prefix) for str s
StartsWith(s, prefix) ==
    /\ Len(s) >= Len(prefix)
    /\ SubSeq(s, 1, Len(prefix)) = prefix

DigitVal(c) ==
    CASE c = "0" -> 0 [] c = "1" -> 1 [] c = "2" -> 2 [] c = "3" -> 3
      [] c = "4" -> 4 [] c = "5" -> 5 [] c = "6" -> 6 [] c = "7" -> 7
      [] c = "8" -> 8 [] c = "9" -> 9

RECURSIVE ParseInt(_)
\* int(s) for a str of decimal digits
ParseInt(s) ==
    IF Len(s) = 0 THEN 0
    ELSE 10 * ParseInt(SubSeq(s, 1, Len(s) - 1)) + DigitVal(s[Len(s)])

\* 2^22: self.id >> 22 is self.id \div TwoPow22
TwoPow22 == 4194304

(***************************************************************************)
(* User.__init__ and the avatar properties (user.py).  Only the fields the *)
(* cache and the avatar URL read are kept.                                 *)
(***************************************************************************)
UserInit(payload) ==
    [ id             |-> ParseInt(payload["id"]),
      username       |-> payload["username"],
      discriminator  |-> payload["discriminator"],
      avatar_hash    |-> Get(payload, "avatar", Some(payload["discriminator"])),
      _guilds        |-> None,
      _guild_members |-> <<>>,
      connections    |-> None ]

\* is_avatar_animated (User and GuildMember): None has no startswith -> False
is_avatar_animated(self) ==
    IF self.avatar_hash = None THEN FALSE
    ELSE StartsWith(self.avatar_hash[1], <<"a", "_">>)

default_avatar_url(self) ==
    [ base  |-> "DISCORD_DEFAULT_USER_AVATAR_BASE_URL",
      index |-> (self.id \div TwoPow22) % 6 ]

avatar_url(self) ==
    IF ~Truthy(self.avatar_hash) THEN Some(default_avatar_url(self))
    ELSE Some([ base        |-> "DISCORD_USER_AVATAR_BASE_URL",
                user_id     |-> self.id,
                avatar_hash |-> self.avatar_hash[1],
                format      |-> IF is_avatar_animated(self)
                                THEN "DISCORD_ANIMATED_IMAGE_FORMAT"
                                ELSE "DISCORD_IMAGE_FORMAT" ])

(***************************************************************************)
(* GuildMember.__init__ and icon_url (member.py).                          *)
(***************************************************************************)
GuildMemberInit(payload, guild_id) ==
    [ user        |-> payload["user"],
      nick        |-> Get(payload, "nick", None),
      avatar_hash |-> Get(payload, "avatar", None),
      guild_id    |-> guild_id,
      _guild_id   |-> guild_id,
      id          |-> ParseInt(payload["user"]["id"]) ]

icon_url(self) ==
    IF ~Truthy(self.avatar_hash) THEN None
    ELSE Some([ base        |-> "DISCORD_GUILD_MEMBER_AVATAR_BASE_URL",
                guild_id    |-> self._guild_id,
                user_id     |-> self.id,
                avatar_hash |-> self.avatar_hash[1],
                format      |-> IF is_avatar_animated(self)
                                THEN "DISCORD_ANIMATED_IMAGE_FORMAT"
                                ELSE "DISCORD_IMAGE_FORMAT" ])

(***************************************************************************)
(* The cached properties of a User (user.py).  _guilds is None or a dict   *)
(* of guild ID to Guild, kept as the sequence of its <<key, value>> items  *)
(* in insertion order; _guild_members is a dict of guild ID to GuildMember.*)
(***************************************************************************)
RECURSIVE DictSet(_, _, _)
\* d[k] = v on an insertion-ordered dict: an existing key keeps its place
DictSet(d, k, v) ==
    IF d = <<>> THEN <<<<k, v>>>>
    ELSE IF d[1][1] = k THEN <<<<k, v>>>> \o Tail(d)
    ELSE <<d[1]>> \o DictSet(Tail(d), k, v)

RECURSIVE GuildDict(_)
\* {guild.id: guild for guild in guild_list}
GuildDict(guild_list) ==
    IF guild_list = <<>> THEN <<>>
    ELSE LET n == Len(guild_list)
         IN DictSet(GuildDict(SubSeq(guild_list, 1, n - 1)),
                    guild_list[n].id, guild_list[n])

\* the guilds property: list(self._guilds.values()), or None when _guilds is None
guilds(self) ==
    IF self._guilds = None THEN None
    ELSE Some([i \in 1..Len(self._guilds[1]) |-> self._guilds[1][i][2]])

\* the guild_members property
guild_members(self) == self._guild_members

\* a faulty variant: an entry the mapping already holds is kept (setdefault)
guild_members_setter_keep(self, value) ==
    [self EXCEPT !._guild_members = @ @@ (value.guild_id :> value)]

\* a faulty variant: the setter replaces the mapping by the one entry
guild_members_setter_replace(self, value) ==
    [self EXCEPT !._guild_members = (value.guild_id :> value)]

\* the guild_members setter: self._guild_members[value.guild_id] = value
guild_members_setter(self, value) ==
    [self EXCEPT !._guild_members = (value.guild_id :> value) @@ @]

(***************************************************************************)
(* Calls.  A call runs on a machine state m: the heap of User instances    *)
(* and the number allocated, the users cache, the sessions'                *)
(* DISCORD_USER_ID, the HTTP requests the call has issued so far, the      *)
(* exception in flight ("" for none) and the value returned.  The          *)
(* responses of the remote API are inputs.                                 *)
(***************************************************************************)
Raise(m, e) == [m EXCEPT !.exc = e]

\* current_app.discord.request / bot_request: the request is issued; a response
\* that is not a success raises, any other yields its decoded body
Request(m, rq, resp) ==
    [m EXCEPT !.http = Append(@, rq),
              !.exc  = IF resp.ok THEN @ ELSE "HTTPError"]

\* class attributes: ROUTE, BOT, MANY
UserClass == [name |-> "User", ROUTE |-> "/users/@me", BOT |-> FALSE, MANY |-> FALSE]

GuildMemberClass ==
    [ name |-> "GuildMember", ROUTE |-> "/users/@me/guilds/{guild_id}/member",
      BOT |-> FALSE, MANY |-> FALSE ]

GuildClass == [name |-> "Guild", ROUTE |-> "/users/@me/guilds", BOT |-> FALSE, MANY |-> TRUE]

UserConnectionClass ==
    [ name |-> "UserConnection", ROUTE |-> "/users/@me/connections",
      BOT |-> FALSE, MANY |-> TRUE ]

\* Guild(payload): a snapshot identified by its numeric ID
GuildInit(payload) == [id |-> ParseInt(payload["id"])]

\* UserConnection(payload)
UserConnectionInit(payload) == [id |-> payload["id"]]

\* cls(*args): [exc, val]; a constructor called with the wrong number of
\* positional arguments raises TypeError
Construct(cls, args) ==
    CASE cls.name = "User" ->
           IF Len(args) = 1 THEN [exc |-> "", val |-> UserInit(args[1])]
           ELSE [exc |-> "TypeError", val |-> None]
      [] cls.name = "GuildMember" ->
           IF Len(args) = 2 THEN [exc |-> "", val |-> GuildMemberInit(args[1], args[2])]
           ELSE [exc |-> "TypeError", val |-> None]
      [] cls.name = "Guild" ->
           IF Len(args) = 1 THEN [exc |-> "", val |-> GuildInit(args[1])]
           ELSE [exc |-> "TypeError", val |-> None]
      [] cls.name = "UserConnection" ->
           IF Len(args) = 1 THEN [exc |-> "", val |-> UserConnectionInit(args[1])]
           ELSE [exc |-> "TypeError", val |-> None]

\* [cls(_) for _ in payload]
ConstructMany(cls, payload) ==
    [exc |-> "", val |-> [i \in 1..Len(payload) |-> Construct(cls, <<payload[i]>>).val]]

\* cls.ROUTE.replace("{guild_id}", str(guild_id)) when guild_id != 0, else cls.ROUTE
RouteFor(cls, guild_id) ==
    [ template |-> cls.ROUTE,
      guild_id |-> IF guild_id # 0 THEN Some(guild_id) ELSE None ]

\* the call goes on with what `c`, a construction, raised or built, unless an
\* exception is already in flight
Built(m, c) ==
    IF m.exc # "" THEN m ELSE [m EXCEPT !.exc = c.exc, !.ret = c.val]

\* DiscordModelsBase.fetch_from_api(cls, guild_id)
BaseFetchFromApi(m, cls, guild_id, resp) ==
    Built(Request(m, [bot |-> cls.BOT, method |-> "GET",
                      route |-> RouteFor(cls, guild_id)], resp),
          IF guild_id = 0
          THEN IF cls.MANY THEN ConstructMany(cls, resp.payload)
               ELSE Construct(cls, <<resp.payload>>)
          ELSE Construct(cls, <<resp.payload, guild_id>>))

\* current_app.discord.user_id: the session's DISCORD_USER_ID, or None
user_id(m, s) == m.session[s]

\* users_cache.get(key) for an optional key
CacheGet(cache, key) ==
    IF key # None /\ key[1] \in DOMAIN cache THEN Some(cache[key[1]]) ELSE None

\* try: user.guild_members = member, except AttributeError: pass
\* (user is None when the cache has no entry: None has no such attribute)
TrySetMember(m, user) ==
    IF user = None THEN m
    ELSE [m EXCEPT !.heap[user[1]] = guild_members_setter(@, m.ret)]

\* a faulty variant: the member is stored whatever the cache flag says
CacheMemberAlways(m, s, cache) ==
    IF m.exc # "" THEN m
    ELSE TrySetMember(m, CacheGet(m.users_cache, user_id(m, s)))

\* a faulty variant: the member is stored on every User the cache holds
CacheMemberEveryUser(m, s, cache) ==
    IF m.exc # "" \/ ~cache THEN m
    ELSE [m EXCEPT !.heap =
            [i \in DOMAIN m.heap |->
               IF \E k \in DOMAIN m.users_cache : m.users_cache[k] = i
               THEN guild_members_setter(m.heap[i], m.ret) ELSE m.heap[i]]]

\* GuildMember.fetch_from_api after super().fetch_from_api(): if cache: ...
CacheMember(m, s, cache) ==
    IF m.exc # "" THEN m
    ELSE IF cache THEN TrySetMember(m, CacheGet(m.users_cache, user_id(m, s)))
    ELSE m

\* GuildMember.fetch_from_api(guild_id, cache) in session s
GuildMemberFetchFromApi(m, s, guild_id, cache, resp) ==
    CacheMember(BaseFetchFromApi(m, GuildMemberClass, guild_id, resp), s, cache)

\* Guild.fetch_from_api(cache=False): the list of the session's guilds
GuildFetchFromApi(m, resp) == BaseFetchFromApi(m, GuildClass, 0, resp)

\* UserConnection.fetch_from_api(cache=False)
UserConnectionFetchFromApi(m, resp) == BaseFetchFromApi(m, UserConnectionClass, 0, resp)

RECURSIVE DictUpdate(_, _)
\* d.update(e) on insertion-ordered dicts
DictUpdate(d, e) ==
    IF e = <<>> THEN d ELSE DictUpdate(DictSet(d, e[1][1], e[1][2]), Tail(e))

\* a faulty variant: the fetched guilds are merged into the cache already there
StoreGuildsMerge(m, self) ==
    IF m.exc # "" THEN m
    ELSE [m EXCEPT !.heap[self]._guilds =
            IF @ = None THEN Some(GuildDict(m.ret))
            ELSE Some(DictUpdate(@[1], GuildDict(m.ret)))]

\* self._guilds = {guild.id: guild for guild in <the list fetched>}
StoreGuilds(m, self) ==
    IF m.exc # "" THEN m
    ELSE [m EXCEPT !.heap[self]._guilds = Some(GuildDict(m.ret))]

\* return self.guilds
ReturnGuilds(m, self) ==
    IF m.exc # "" THEN m ELSE [m EXCEPT !.ret = guilds(m.heap[self])]

\* User.fetch_guilds(self)
fetch_guilds(m, self, resp) ==
    ReturnGuilds(StoreGuilds(GuildFetchFromApi(m, resp), self), self)

\* self.connections = <the list fetched>; return self.connections
StoreConnections(m, self) ==
    IF m.exc # "" THEN m ELSE [m EXCEPT !.heap[self].connections = Some(m.ret)]

\* User.fetch_connections(self)
fetch_connections(m, self, resp) ==
    StoreConnections(UserConnectionFetchFromApi(m, resp), self)

\* self.guild_members = member; return member
StoreMember(m, self) ==
    IF m.exc # "" THEN m
    ELSE [m EXCEPT !.heap[self] = guild_members_setter(@, m.ret)]

\* User.fetch_guild_member(self, guild_id)
fetch_guild_member(m, s, self, guild_id, resp) ==
    StoreMember(GuildMemberFetchFromApi(m, s, guild_id, FALSE, resp), self)

RECURSIVE FetchEachMember(_, _, _, _, _)
\* for guild in guild_list:
\*     self.guild_members = GuildMember.fetch_from_api(guild.id, cache=False)
FetchEachMember(m, s, self, guild_list, resps) ==
    IF guild_list = <<>> \/ m.exc # "" THEN m
    ELSE FetchEachMember(
            StoreMember(GuildMemberFetchFromApi(m, s, guild_list[1].id, FALSE,
                                                resps[guild_list[1].id]), self),
            s, self, Tail(guild_list), resps)

\* return self.guild_members
ReturnMembers(m, self) ==
    IF m.exc # "" THEN m ELSE [m EXCEPT !.ret = guild_members(m.heap[self])]

\* User.fetch_guild_members(self), called with the extra positional arguments
\* `args`: the method takes none.  Iterating self.guilds when it is None raises
\* TypeError.
fetch_guild_members(m, s, self, args, resps) ==
    IF args # <<>> THEN Raise(m, "TypeError")
    ELSE IF guilds(m.heap[self]) = None THEN Raise(m, "TypeError")
    ELSE ReturnMembers(FetchEachMember(m, s, self, guilds(m.heap[self])[1], resps), self)

RECURSIVE FetchMembersEachGuild(_, _, _, _, _)
\* for guild in guild_list: self.fetch_guild_members(guild.id)
FetchMembersEachGuild(m, s, self, guild_list, resps) ==
    IF guild_list = <<>> \/ m.exc # "" THEN m
    ELSE FetchMembersEachGuild(
            fetch_guild_members(m, s, self, <<guild_list[1].id>>, resps),
            s, self, Tail(guild_list), resps)

\* a faulty variant: the new instance is cached, the session is not told
CacheUserNoSession(m, s) ==
    IF m.exc # "" THEN m
    ELSE [m EXCEPT !.heap = ((m.allocated + 1) :> m.ret) @@ @,
                   !.allocated = @ + 1,
                   !.self = m.allocated + 1,
                   !.users_cache = (m.ret.id :> (m.allocated + 1)) @@ @]

\* a faulty variant: an instance already cached under the ID is kept and reused
CacheUserReuse(m, s) ==
    IF m.exc # "" THEN m
    ELSE IF m.ret.id \in DOMAIN m.users_cache
    THEN [m EXCEPT !.self = m.users_cache[m.ret.id],
                   !.session[s] = Some(m.ret.id)]
    ELSE [m EXCEPT !.heap = ((m.allocated + 1) :> m.ret) @@ @,
                   !.allocated = @ + 1,
                   !.self = m.allocated + 1,
                   !.users_cache = (m.ret.id :> (m.allocated + 1)) @@ @,
                   !.session[s] = Some(m.ret.id)]

\* User.fetch_from_api after super().fetch_from_api(): the new instance, self, is
\* put in the users cache under its ID and the ID in the session
CacheUser(m, s) ==
    IF m.exc # "" THEN m
    ELSE [m EXCEPT !.heap = ((m.allocated + 1) :> m.ret) @@ @,
                   !.allocated = @ + 1,
                   !.self = m.allocated + 1,
                   !.users_cache = (m.ret.id :> (m.allocated + 1)) @@ @,
                   !.session[s] = Some(m.ret.id)]

\* if guilds: self.fetch_guilds()
NestedGuilds(m, guilds_flag, resp) ==
    IF m.exc = "" /\ guilds_flag THEN fetch_guilds(m, m.self, resp) ELSE m

\* if connections: self.fetch_connections()
NestedConnections(m, connections_flag, resp) ==
    IF m.exc = "" /\ connections_flag THEN fetch_connections(m, m.self, resp) ELSE m

\* if guilds and members: for guild in self.guilds: self.fetch_guild_members(guild.id)
NestedMembers(m, s, guilds_flag, members_flag, resps) ==
    IF m.exc = "" /\ guilds_flag /\ members_flag
    THEN FetchMembersEachGuild(m, s, m.self, guilds(m.heap[m.self])[1], resps)
    ELSE m

\* return self
ReturnSelf(m) == IF m.exc # "" THEN m ELSE [m EXCEPT !.ret = m.self]

\* User.fetch_from_api(guilds, connections, members) in session s; rs holds the
\* responses to the requests the call may issue
UserFetchFromApi(m, s, guilds_flag, connections_flag, members_flag, rs) ==
    ReturnSelf(
      NestedMembers(
        NestedConnections(
          NestedGuilds(
            CacheUser(BaseFetchFromApi(m, UserClass, 0, rs.user), s),
            guilds_flag, rs.guilds),
          connections_flag, rs.connections),
        s, guilds_flag, members_flag, rs.members))

\* User.get_from_cache() in session s
UserGetFromCache(m, s) == [m EXCEPT !.ret = CacheGet(m.users_cache, user_id(m, s))]

\* return <the response body> or dict()
ReturnBodyOrDict(m, resp) ==
    IF m.exc # "" THEN m
    ELSE [m EXCEPT !.ret = IF resp.payload = None THEN <<>> ELSE resp.payload[1]]

\* a faulty variant: the token is looked up only after the request was sent
add_to_guild_late_check(m, self, guild_id, token, resp) ==
    Raise(Request(m, [ bot |-> TRUE, method |-> "PUT",
                       route |-> [ template |-> "/guilds/{guild_id}/members/{user_id}",
                                   guild_id |-> Some(guild_id),
                                   user_id  |-> m.heap[self].id ],
                       json |-> token ], resp),
          IF "access_token" \notin DOMAIN token THEN "Unauthorized"
          ELSE IF resp.ok THEN "" ELSE "HTTPError")

\* User.add_to_guild(self, guild_id); token is what get_authorization_token()
\* returns, resp the response to the PUT
add_to_guild(m, self, guild_id, token, resp) ==
    IF "access_token" \notin DOMAIN token THEN Raise(m, "Unauthorized")
    ELSE ReturnBodyOrDict(
            Request(m, [ bot |-> TRUE, method |-> "PUT",
                         route |-> [ template |-> "/guilds/{guild_id}/members/{user_id}",
                                     guild_id |-> Some(guild_id),
                                     user_id  |-> m.heap[self].id ],
                         json |-> [access_token |-> token["access_token"]] ], resp),
            resp)

(***************************************************************************)
(* DiscordModelsMeta (base.py).  A class statement first creates the class *)
(* object from its name, its base and the attributes of its body, then     *)
(* runs the metaclass __init__, which reads cls.ROUTE: the class's own     *)
(* attribute, else the nearest base's, else the metaclass's own ROUTE.     *)
(***************************************************************************)
\* DiscordModelsMeta.ROUTE = str()
MetaROUTE == ""

RECURSIVE ClassROUTE(_, _)
\* cls.ROUTE, looked up along the bases of class `name` in class table `table`
ClassROUTE(table, name) ==
    IF table[name].ROUTE # None THEN table[name].ROUTE[1]
    ELSE IF table[name].base # None THEN ClassROUTE(table, table[name].base[1])
    ELSE MetaROUTE

\* a faulty variant: only the class's own body is consulted, never a base
MetaInitRaisesOwnOnly(table, name) ==
    /\ (table[name].ROUTE = None \/ table[name].ROUTE[1] = "")
    /\ name # "DiscordModelsBase"

\* DiscordModelsMeta.__init__: TRUE when it raises NotImplementedError
MetaInitRaises(table, name) ==
    /\ ClassROUTE(table, name) = ""
    /\ name # "DiscordModelsBase"

\* the classes an application or this package may go on to declare
ClassNames == {"User", "Bot", "GuildMember", "Guild"}

\* the class statement `class name(base, metaclass=DiscordModelsMeta): ROUTE = own`
\* run against class table `table`: the table and the record of the statement
ClassStatement(table, name, base, own) ==
    [ classes |-> IF MetaInitRaises((name :> [base |-> base, ROUTE |-> own]) @@ table, name)
                  THEN table
                  ELSE (name :> [base |-> base, ROUTE |-> own]) @@ table,
      decl    |-> [ kind |-> "class", name |-> name, base |-> base, own |-> own,
                    exc  |-> IF MetaInitRaises(
                                  (name :> [base |-> base, ROUTE |-> own]) @@ table, name)
                             THEN "NotImplementedError" ELSE "" ] ]

\* class DiscordModelsBase(metaclass=DiscordModelsMeta): its body sets no ROUTE
DiscordModelsBaseStatement == ClassStatement(<<>>, "DiscordModelsBase", None, None)

\* what a class body may say about ROUTE: nothing, ROUTE = "", or a route template
OwnRoutes == {None, Some(""), Some("/users/@me")}

\* a class statement is executed; a name is declared at most once
DeclareClass(name, base, own) ==
    /\ name \notin DOMAIN classes
    /\ \E st \in { ClassStatement(classes, name, base, own) } :
          /\ classes' = st.classes
          /\ decl' = st.decl
    /\ UNCHANGED <<built, heap, allocated, users_cache, session, account, last, req>>

(***************************************************************************)
(* Building objects from payloads (SpecAvatar).                            *)
(***************************************************************************)
\* payload["id"] values: id >> 22 is 0, 1, 3, 5, 6 and 7
PayloadIds ==
    { <<"1", "2", "3">>,
      <<"4", "1", "9", "4", "3", "0", "4">>,
      <<"1", "2", "5", "8", "2", "9", "1", "2">>,
      <<"2", "0", "9", "7", "1", "5", "2", "0">>,
      <<"2", "5", "1", "6", "5", "8", "2", "4">>,
      <<"2", "9", "3", "6", "0", "1", "2", "8">> }

Discriminators == { <<"0">>, <<"4", "2", "4", "2">> }

\* payload["avatar"] when the key is present: null, an animated hash, static hashes
AvatarValues ==
    { None,
      Some(<<"a", "_", "f", "1">>),
      Some(<<"f", "1">>),
      Some(<<"a">>),
      Some(<<"b", "a", "_">>) }

\* `base` with the key "avatar" added when `av` holds a value for it
WithAvatar(base, av) ==
    IF av = None THEN base ELSE ("avatar" :> av[1]) @@ base

\* av is None (key absent) or Some(value of the key), the value itself optional
UserPayloads ==
    { WithAvatar([id |-> i, username |-> "alice", discriminator |-> d], av) :
        i \in PayloadIds, d \in Discriminators,
        av \in {None} \cup {Some(v) : v \in AvatarValues} }

MemberPayloads ==
    { WithAvatar([user |-> [id |-> i, username |-> "alice"]], av) :
        i \in PayloadIds, av \in {None} \cup {Some(v) : v \in AvatarValues} }

BuildUser(payload) ==
    /\ built' = [ kind |-> "User", payload |-> payload, obj |-> UserInit(payload),
                  url  |-> avatar_url(UserInit(payload)) ]
    /\ UNCHANGED <<classes, decl, heap, allocated, users_cache, session, account, last, req>>

BuildMember(payload, guild_id) ==
    /\ built' = [ kind |-> "GuildMember", payload |-> payload,
                  obj  |-> GuildMemberInit(payload, guild_id),
                  url  |-> icon_url(GuildMemberInit(payload, guild_id)) ]
    /\ UNCHANGED <<classes, decl, heap, allocated, users_cache, session, account, last, req>>

(***************************************************************************)
(* The environment of the fetch operations: browser sessions, each signed  *)
(* in to one Discord account, and the responses of the remote API.         *)
(***************************************************************************)
\* the number of User instances a run creates
MaxInstances == 2

\* the guilds there are; a guild list holds each at most once
GuildIds == {1, 2}

Sessions == {"s1", "s2"}

\* the user IDs of the accounts, as the API sends them
AccountIds == { <<"1", "1">>, <<"1", "2">> }

Nicks == {"n1"}

\* str(n) for 0 <= n <= 9
Str(n) == << <<"0", "1", "2", "3", "4", "5", "6", "7", "8", "9">>[n + 1] >>

OkResp(payload) == [ok |-> TRUE, payload |-> payload]

\* a response that is not a success
FailResp == [ok |-> FALSE, payload |-> None]

\* a request the call never issues has no response
NoResp == [ok |-> FALSE, payload |-> None]

\* GET /users/@me with the token of session s
UserResps(s) ==
    { FailResp,
      OkResp([id |-> account[s], username |-> "alice", discriminator |-> <<"0">>]) }

RECURSIVE Ascending(_)
\* the members of S in ascending order
Ascending(S) ==
    IF S = {} THEN <<>>
    ELSE LET x == CHOOSE y \in S : \A z \in S : y <= z
         IN <<x>> \o Ascending(S \ {x})

\* the guilds an account may be a member of at one time or another: the first
\* account any guild, every other account the last guild only
AccountGuilds(acct) == IF acct = <<"1", "1">> THEN GuildIds ELSE {2}

\* GET /users/@me/guilds with the token of session s: the guilds the account is
\* in at the time, which the API lists by ascending ID
GuildResps(s) ==
    {FailResp} \cup
    { OkResp([i \in 1..Cardinality(G) |-> [id |-> Str(Ascending(G)[i])]]) :
        G \in SUBSET AccountGuilds(account[s]) }

\* GET /users/@me/connections
ConnectionResps == {FailResp, OkResp(<<[id |-> "c1"]>>)}

\* GET /users/@me/guilds/{guild_id}/member with the token of session s: the
\* member object, or a failure; always a failure for a guild the account is
\* never in, and for the route whose placeholder was not replaced (guild_id 0)
MemberResps(s, guild_id) ==
    {FailResp} \cup
    { OkResp([user |-> [id |-> account[s], username |-> "alice"], nick |-> Some(n)]) :
        n \in IF guild_id \in AccountGuilds(account[s]) THEN Nicks ELSE {} }

\* the nicks a member may go by at one time or another
ChangingNicks == {"n1", "n2"}

\* GET /users/@me/guilds/{guild_id}/member where the nick may have changed
\* since the request before
MemberRespsChanging(s, guild_id) ==
    {FailResp} \cup
    { OkResp([user |-> [id |-> account[s], username |-> "alice"], nick |-> Some(n)]) :
        n \in IF guild_id \in AccountGuilds(account[s]) THEN ChangingNicks ELSE {} }

\* one response per guild of the list `guild_list`, the guilds a loop asks about
MemberRespsEach(s, guild_list) ==
    LET asked == { guild_list[i].id : i \in 1..Len(guild_list) }
    IN { f \in [GuildIds -> {FailResp} \cup UNION {MemberResps(s, g) : g \in GuildIds}] :
           \A g \in GuildIds :
              f[g] \in IF g \in asked THEN MemberResps(s, g) ELSE {NoResp} }

\* PUT /guilds/{guild_id}/members/{user_id}: 201 with the member, 204 with no body
PutResps == {FailResp, OkResp(None), OkResp(Some([nick |-> "n1"]))}

\* get_authorization_token(): the session's OAuth2 token mapping
Tokens == { <<>>, [access_token |-> "t"] }

(***************************************************************************)
(* Spec: each action is one whole call made by the application in session  *)
(* s, on the instance `self` for the instance methods.                     *)
(***************************************************************************)
Machine ==
    [ heap |-> heap, allocated |-> allocated, users_cache |-> users_cache,
      session |-> session, self |-> 0, http |-> <<>>, exc |-> "", ret |-> None ]

\* the instances of heap h that are still referenced: the users cache owns the
\* instances, and `held` are those a request in progress refers to
Collect(h, cache, held) ==
    LET live == { cache[k] : k \in DOMAIN cache } \cup held
    IN [i \in DOMAIN h \cap live |-> h[i]]

\* the call ends: its effects become the state, its outcome is recorded, and an
\* instance the cache no longer refers to is gone with the request
Commit(m, call) ==
    /\ heap' = Collect(m.heap, m.users_cache, {})
    /\ allocated' = m.allocated
    /\ users_cache' = m.users_cache
    /\ session' = m.session
    /\ last' = call @@ [ exc  |-> m.exc, http |-> m.http,
                         ret  |-> IF m.exc = "" THEN m.ret ELSE None ]
    /\ UNCHANGED <<built, classes, decl, account, req>>

\* the instance the application holds in session s: User.get_from_cache()
Held(s) ==
    LET user == CacheGet(users_cache, session[s])
    IN IF user = None THEN {} ELSE {user[1]}

DoUserFetchFromApi(s) ==
    /\ allocated < MaxInstances
    /\ \E g \in BOOLEAN, c \in BOOLEAN, mb \in BOOLEAN :
       \E ru \in UserResps(s) :
       \E rg \in IF g /\ ru.ok THEN GuildResps(s) ELSE {NoResp} :
       \E rc \in IF c /\ ru.ok /\ (g => rg.ok) THEN ConnectionResps ELSE {NoResp} :
       \E rm \in IF g /\ mb /\ ru.ok /\ rg.ok /\ (c => rc.ok)
                 THEN MemberRespsEach(s, [i \in 1..Len(rg.payload) |->
                                            GuildInit(rg.payload[i])])
                 ELSE {[x \in GuildIds |-> NoResp]} :
       \E m \in { UserFetchFromApi(Machine, s, g, c, mb,
                      [user |-> ru, guilds |-> rg, connections |-> rc, members |-> rm]) } :
            Commit(m, [ op |-> "User.fetch_from_api", sess |-> s, self |-> 0,
                        guild_id |-> 0,
                        flags |-> [guilds |-> g, connections |-> c, members |-> mb] ])

DoUserGetFromCache(s) ==
    \E m \in { UserGetFromCache(Machine, s) } :
        Commit(m, [ op |-> "User.get_from_cache", sess |-> s, self |-> 0, guild_id |-> 0 ])

DoFetchGuilds(s) ==
    \E self \in Held(s), r \in GuildResps(s) :
    \E m \in { fetch_guilds(Machine, self, r) } :
        Commit(m, [ op |-> "fetch_guilds", sess |-> s, self |-> self, guild_id |-> 0 ])

DoFetchConnections(s) ==
    \E self \in Held(s), r \in ConnectionResps :
    \E m \in { fetch_connections(Machine, self, r) } :
        Commit(m, [ op |-> "fetch_connections", sess |-> s, self |-> self, guild_id |-> 0 ])

DoFetchGuildMember(s) ==
    \E self \in Held(s), g \in GuildIds : \E r \in MemberResps(s, g) :
    \E m \in { fetch_guild_member(Machine, s, self, g, r) } :
        Commit(m, [ op |-> "fetch_guild_member", sess |-> s, self |-> self, guild_id |-> g ])

\* fetch_guild_member(guild_id) of a member whose nick may have changed; `before`
\* is the guild_members mapping the call found
DoFetchGuildMemberChanging(s) ==
    \E self \in Held(s), g \in GuildIds : \E r \in MemberRespsChanging(s, g) :
    \E m \in { fetch_guild_member(Machine, s, self, g, r) } :
        Commit(m, [ op |-> "fetch_guild_member", sess |-> s, self |-> self, guild_id |-> g,
                    before |-> guild_members(heap[self]) ])

DoFetchGuildMembers(s) ==
    \E self \in Held(s) :
    \E rm \in MemberRespsEach(s, IF guilds(heap[self]) = None THEN <<>>
                                  ELSE guilds(heap[self])[1]) :
    \E m \in { fetch_guild_members(Machine, s, self, <<>>, rm) } :
        Commit(m, [ op |-> "fetch_guild_members", sess |-> s, self |-> self, guild_id |-> 0 ])

DoAddToGuild(s) ==
    \E self \in Held(s), g \in GuildIds, t \in Tokens, r \in PutResps :
    \E m \in { add_to_guild(Machine, self, g, t, r) } :
        Commit(m, [ op |-> "add_to_guild", sess |-> s, self |-> self, guild_id |-> g,
                    token |-> t ])

\* guild_id 0 is the default of the parameter
DoGuildMemberFetchFromApi(s) ==
    \E g \in GuildIds \cup {0}, cache \in BOOLEAN : \E r \in MemberResps(s, g) :
    \E m \in { GuildMemberFetchFromApi(Machine, s, g, cache, r) } :
        Commit(m, [ op |-> "GuildMember.fetch_from_api", sess |-> s, self |-> 0,
                    guild_id |-> g, cache |-> cache ])

(***************************************************************************)
(* Initial states and specifications.                                      *)
(***************************************************************************)
InitAvatar ==
    /\ built = [kind |-> "none"]
    /\ classes = <<>>
    /\ decl = [kind |-> "none"]
    /\ heap = <<>>
    /\ allocated = 0
    /\ users_cache = <<>>
    /\ session = [s \in Sessions |-> None]
    /\ account = [s \in Sessions |-> <<"1", "1">>]
    /\ last = [op |-> "none"]
    /\ req = <<>>

Init ==
    /\ built = [kind |-> "none"]
    /\ classes = <<>>
    /\ decl = [kind |-> "none"]
    /\ heap = <<>>
    /\ allocated = 0
    /\ users_cache = <<>>
    /\ session = [s \in Sessions |-> None]
    /\ account \in { [s1 |-> <<"1", "1">>, s2 |-> <<"1", "2">>],
                     [s1 |-> <<"1", "1">>, s2 |-> <<"1", "1">>] }
    /\ last = [op |-> "none"]
    /\ req = <<>>

Next ==
    \E s \in Sessions :
        \/ DoUserFetchFromApi(s)
        \/ DoUserGetFromCache(s)
        \/ DoFetchGuilds(s)
        \/ DoFetchConnections(s)
        \/ DoFetchGuildMember(s)
        \/ DoFetchGuildMembers(s)
        \/ DoGuildMemberFetchFromApi(s)

Spec == Init /\ [][Next]_vars

\* signing in (User.fetch_from_api) and joining guilds (add_to_guild)
NextJoin ==
    \E s \in Sessions :
        \/ DoUserFetchFromApi(s)
        \/ DoAddToGuild(s)

SpecJoin == Init /\ [][NextJoin]_vars

\* signing in (User.fetch_from_api) and fetching single guild members
NextMember ==
    \E s \in Sessions :
        \/ DoUserFetchFromApi(s)
        \/ DoFetchGuildMemberChanging(s)

SpecMember == Init /\ [][NextMember]_vars

NextAvatar ==
    \/ \E p \in UserPayloads : BuildUser(p)
    \/ \E p \in MemberPayloads, g \in GuildIds : BuildMember(p, g)

SpecAvatar == InitAvatar /\ [][NextAvatar]_vars

\* base.py has been imported: DiscordModelsBase is defined
InitMeta ==
    /\ built = [kind |-> "none"]
    /\ classes = DiscordModelsBaseStatement.classes
    /\ decl = DiscordModelsBaseStatement.decl
    /\ heap = <<>>
    /\ allocated = 0
    /\ users_cache = <<>>
    /\ session = [s \in Sessions |-> None]
    /\ account = [s \in Sessions |-> <<"1", "1">>]
    /\ last = [op |-> "none"]
    /\ req = <<>>

NextMeta ==
    \E name \in ClassNames, own \in OwnRoutes,
       base \in {None} \cup {Some(b) : b \in DOMAIN classes} :
        DeclareClass(name, base, own)

SpecMeta == InitMeta /\ [][NextMeta]_vars

(***************************************************************************)
(* SpecConc: requests run concurrently, one thread each.  A call blocks    *)
(* its thread while it waits for an HTTP response, and that is where the   *)
(* threads interleave: an action is either the start of a call, up to its  *)
(* first request, or the arrival of a response and the code from there to  *)
(* the next request or to the return.                                      *)
(***************************************************************************)
Requests == {"r1", "r2"}

\* the browser session a request comes from
SessionOf(r) == IF r = "r1" THEN "s1" ELSE "s2"

\* a thread that runs no call
Idle ==
    [ pc |-> "idle", op |-> "", self |-> 0, guild_id |-> 0, cache |-> FALSE,
      flags |-> [guilds |-> FALSE, connections |-> FALSE, members |-> FALSE],
      todo |-> <<>> ]

\* the machine state request r goes on from: the shared state, and its own self
MachineOf(r) == [Machine EXCEPT !.self = req[r].self]

\* the instances the calls in progress refer to
HeldBy(rq) == { rq[r].self : r \in DOMAIN rq } \ {0}

\* no member request is answered: the call issues none
NoMemberResps == [g \in GuildIds |-> NoResp]

\* request r has run a stretch of `op` that ended in machine state m and goes on
\* as `next`: waiting for a response, or idle again when the call is over
Step(m, r, next) ==
    /\ req' = [req EXCEPT ![r] = next]
    /\ heap' = Collect(m.heap, m.users_cache, HeldBy([req EXCEPT ![r] = next]))
    /\ allocated' = m.allocated
    /\ users_cache' = m.users_cache
    /\ session' = m.session
    /\ UNCHANGED <<built, classes, decl, account, last>>

\* User.fetch_from_api(guilds, connections, members) is called: GET /users/@me
CallUserFetchFromApi(r) ==
    /\ req[r].pc = "idle"
    /\ allocated + Cardinality({o \in Requests : req[o].pc = "user"}) < MaxInstances
    /\ \E g \in BOOLEAN, c \in BOOLEAN, mb \in BOOLEAN :
          Step(Machine, r, [Idle EXCEPT !.pc = "user", !.op = "User.fetch_from_api",
                            !.flags = [guilds |-> g, connections |-> c, members |-> mb]])

\* the user arrives: the instance is built and cached, the session told; then
\* the nested fetches, by the flags
UserResponse(r) ==
    /\ req[r].pc = "user"
    /\ \E resp \in UserResps(SessionOf(r)) :
       \E m \in { CacheUser(BaseFetchFromApi(Machine, UserClass, 0, resp), SessionOf(r)) } :
          IF m.exc # "" THEN Step(m, r, Idle)
          ELSE IF req[r].flags.guilds
          THEN Step(m, r, [req[r] EXCEPT !.pc = "guilds", !.self = m.self])
          ELSE IF req[r].flags.connections
          THEN Step(m, r, [req[r] EXCEPT !.pc = "connections", !.self = m.self])
          ELSE Step(ReturnSelf(NestedMembers(m, SessionOf(r), FALSE, req[r].flags.members,
                                             NoMemberResps)),
                    r, Idle)

\* fetch_guilds() is called on the session's cached instance: GET /users/@me/guilds
CallFetchGuilds(r) ==
    /\ req[r].pc = "idle"
    /\ \E self \in Held(SessionOf(r)) :
          Step(Machine, r, [Idle EXCEPT !.pc = "guilds", !.op = "fetch_guilds", !.self = self])

\* the guild list arrives, in fetch_guilds() called alone or by User.fetch_from_api
GuildsResponse(r) ==
    /\ req[r].pc = "guilds"
    /\ \E resp \in GuildResps(SessionOf(r)) :
       \E m \in { fetch_guilds(MachineOf(r), req[r].self, resp) } :
          IF req[r].op = "fetch_guilds" \/ m.exc # "" THEN Step(m, r, Idle)
          ELSE IF req[r].flags.connections
          THEN Step(m, r, [req[r] EXCEPT !.pc = "connections"])
          ELSE Step(ReturnSelf(NestedMembers(m, SessionOf(r), TRUE, req[r].flags.members,
                                             NoMemberResps)),
                    r, Idle)

\* the connections arrive, in User.fetch_from_api(connections=True)
ConnectionsResponse(r) ==
    /\ req[r].pc = "connections"
    /\ \E resp \in ConnectionResps :
       \E m \in { fetch_connections(MachineOf(r), req[r].self, resp) } :
          Step(ReturnSelf(NestedMembers(m, SessionOf(r), req[r].flags.guilds,
                                        req[r].flags.members, NoMemberResps)),
               r, Idle)

\* fetch_guild_member(guild_id) is called on the session's cached instance
CallFetchGuildMember(r) ==
    /\ req[r].pc = "idle"
    /\ \E self \in Held(SessionOf(r)), g \in GuildIds :
          Step(Machine, r, [Idle EXCEPT !.pc = "member", !.op = "fetch_guild_member",
                            !.self = self, !.guild_id = g])

MemberResponse(r) ==
    /\ req[r].pc = "member"
    /\ \E resp \in MemberResps(SessionOf(r), req[r].guild_id) :
       \E m \in { fetch_guild_member(MachineOf(r), SessionOf(r), req[r].self,
                                     req[r].guild_id, resp) } :
          Step(m, r, Idle)

\* fetch_guild_members() is called on the session's cached instance: it raises
\* or returns at once without guilds to ask about, else it takes the list
\* self.guilds and asks about the first guild
CallFetchGuildMembers(r) ==
    /\ req[r].pc = "idle"
    /\ \E self \in Held(SessionOf(r)) :
          IF guilds(heap[self]) = None \/ guilds(heap[self])[1] = <<>>
          THEN \E m \in { fetch_guild_members(Machine, SessionOf(r), self, <<>>,
                                              NoMemberResps) } :
                  Step(m, r, Idle)
          ELSE Step(Machine, r, [Idle EXCEPT !.pc = "each", !.op = "fetch_guild_members",
                                 !.self = self, !.todo = guilds(heap[self])[1]])

\* the member of the guild the loop is at arrives and is stored; the loop goes
\* on to the next guild of its list, or the call returns
EachResponse(r) ==
    /\ req[r].pc = "each"
    /\ \E resp \in MemberResps(SessionOf(r), req[r].todo[1].id) :
       \E m \in { FetchEachMember(MachineOf(r), SessionOf(r), req[r].self,
                                  <<req[r].todo[1]>>, (req[r].todo[1].id :> resp)) } :
          IF m.exc # "" THEN Step(m, r, Idle)
          ELSE IF Tail(req[r].todo) = <<>>
          THEN Step(ReturnMembers(m, req[r].self), r, Idle)
          ELSE Step(m, r, [req[r] EXCEPT !.todo = Tail(@)])

\* GuildMember.fetch_from_api(guild_id, cache) is called
CallGuildMemberFetchFromApi(r) ==
    /\ req[r].pc = "idle"
    /\ \E g \in GuildIds, cache \in BOOLEAN :
          Step(Machine, r, [Idle EXCEPT !.pc = "gm", !.op = "GuildMember.fetch_from_api",
                            !.guild_id = g, !.cache = cache])

GuildMemberResponse(r) ==
    /\ req[r].pc = "gm"
    /\ \E resp \in MemberResps(SessionOf(r), req[r].guild_id) :
       \E m \in { GuildMemberFetchFromApi(Machine, SessionOf(r), req[r].guild_id,
                                          req[r].cache, resp) } :
          Step(m, r, Idle)

InitConc ==
    /\ built = [kind |-> "none"]
    /\ classes = <<>>
    /\ decl = [kind |-> "none"]
    /\ heap = <<>>
    /\ allocated = 0
    /\ users_cache = <<>>
    /\ session = [s \in Sessions |-> None]
    /\ account \in { [s1 |-> <<"1", "1">>, s2 |-> <<"1", "2">>],
                     [s1 |-> <<"1", "1">>, s2 |-> <<"1", "1">>] }
    /\ last = [op |-> "none"]
    /\ req = [r \in Requests |-> Idle]

NextConc ==
    \E r \in Requests :
        \/ CallUserFetchFromApi(r)
        \/ UserResponse(r)
        \/ CallFetchGuilds(r)
        \/ GuildsResponse(r)
        \/ ConnectionsResponse(r)
        \/ CallFetchGuildMember(r)
        \/ MemberResponse(r)
        \/ CallFetchGuildMembers(r)
        \/ EachResponse(r)
        \/ CallGuildMemberFetchFromApi(r)
        \/ GuildMemberResponse(r)

SpecConc == InitConc /\ [][NextConc]_vars

(***************************************************************************)
(* SpecRace: the calls that assign a guild cache, User.fetch_from_api and  *)
(* fetch_guilds(), interleaved as in SpecConc.  `last` is the assignment   *)
(* of a guild cache made last: the request, the instance, the response the *)
(* mapping was built from, and the same of the assignment before it.       *)
(***************************************************************************)
\* as Step, for the arrival of the guild list `resp`: when it is a success the
\* guild cache of the instance was assigned, and the assignment is recorded
StepAssigned(m, r, next, resp) ==
    /\ req' = [req EXCEPT ![r] = next]
    /\ heap' = Collect(m.heap, m.users_cache, HeldBy([req EXCEPT ![r] = next]))
    /\ allocated' = m.allocated
    /\ users_cache' = m.users_cache
    /\ session' = m.session
    /\ last' = IF resp.ok
               THEN [ op |-> "fetch_guilds", req |-> r, self |-> req[r].self,
                      payload |-> resp.payload,
                      before |-> IF last.op = "fetch_guilds"
                                 THEN Some([ req |-> last.req, self |-> last.self,
                                             payload |-> last.payload ])
                                 ELSE None ]
               ELSE last
    /\ UNCHANGED <<built, classes, decl, account>>

\* the guild list arrives, in fetch_guilds() called alone or by User.fetch_from_api
GuildsResponseAssigned(r) ==
    /\ req[r].pc = "guilds"
    /\ \E resp \in GuildResps(SessionOf(r)) :
       \E m \in { fetch_guilds(MachineOf(r), req[r].self, resp) } :
          IF req[r].op = "fetch_guilds" \/ m.exc # "" THEN StepAssigned(m, r, Idle, resp)
          ELSE IF req[r].flags.connections
          THEN StepAssigned(m, r, [req[r] EXCEPT !.pc = "connections"], resp)
          ELSE StepAssigned(
                  ReturnSelf(NestedMembers(m, SessionOf(r), TRUE, req[r].flags.members,
                                           NoMemberResps)),
                  r, Idle, resp)

NextRace ==
    \E r \in Requests :
        \/ CallUserFetchFromApi(r)
        \/ UserResponse(r)
        \/ CallFetchGuilds(r)
        \/ GuildsResponseAssigned(r)
        \/ ConnectionsResponse(r)

SpecRace == InitConc /\ [][NextRace]_vars

(***************************************************************************)
(* C7.  Avatar URLs.                                                       *)
(***************************************************************************)
\* the payload carries an avatar hash: the key is present and not null
HasHash(payload) == "avatar" \in DOMAIN payload /\ payload["avatar"] # None

HashFormat(h) ==
    IF Len(h) >= 2 /\ h[1] = "a" /\ h[2] = "_"
    THEN "DISCORD_ANIMATED_IMAGE_FORMAT" ELSE "DISCORD_IMAGE_FORMAT"

\* C7: a User or GuildMember whose avatar hash starts with "a_" gets the animated
\* format and any other present hash the static one; a GuildMember without a hash
\* has icon_url None; a User without a hash (key absent or null) has the
\* default-avatar URL with index (id >> 22) mod 6.
C7_AvatarUrlSelection ==
    /\ (built.kind \in {"User", "GuildMember"} /\ HasHash(built.payload)) =>
          /\ built.url # None
          /\ built.url[1].avatar_hash = built.payload["avatar"][1]
          /\ built.url[1].format = HashFormat(built.payload["avatar"][1])
    /\ (built.kind = "GuildMember" /\ ~HasHash(built.payload)) => built.url = None
    /\ (built.kind = "User" /\ ~HasHash(built.payload)) =>
          built.url = Some([ base  |-> "DISCORD_DEFAULT_USER_AVATAR_BASE_URL",
                             index |-> (ParseInt(built.payload["id"]) \div 4194304) % 6 ])

\* C7, the part the code meets: everything but a User payload without the key
C7_ExceptAbsentKey ==
    (built.kind = "User" => "avatar" \in DOMAIN built.payload) => C7_AvatarUrlSelection

(***************************************************************************)
(* C8.  Declarations without a route template.                             *)
(***************************************************************************)
\* C8 as stated: every declaration, other than DiscordModelsBase, whose body
\* omits ROUTE fails at class-definition time, and one that supplies a
\* non-empty ROUTE succeeds.
C8_OmittedRouteFails ==
    decl.kind = "class" =>
        /\ (decl.own = None /\ decl.name # "DiscordModelsBase") =>
              decl.exc = "NotImplementedError"
        /\ (decl.own # None /\ decl.own[1] # "") => decl.exc = ""

\* C8 amended: a declaration other than DiscordModelsBase fails at definition
\* time, leaving no class defined, exactly when its body gives no non-empty ROUTE
\* and it inherits none from its base; a declaration that supplies a non-empty
\* ROUTE, or omits it under a base that has one, succeeds.  Every class that
\* exists, DiscordModelsBase apart, therefore has a non-empty route.
C8_FailsUnlessRouteOwnOrInherited ==
    /\ decl.kind = "class" =>
        LET inherited == IF decl.base = None THEN ""
                         ELSE ClassROUTE(classes, decl.base[1])
            route     == IF decl.own # None THEN decl.own[1] ELSE inherited
        IN /\ decl.exc = "NotImplementedError" <=>
                (route = "" /\ decl.name # "DiscordModelsBase")
           /\ decl.exc \in {"", "NotImplementedError"}
           /\ decl.exc = "" <=> decl.name \in DOMAIN classes
    /\ \A c \in DOMAIN classes :
          c # "DiscordModelsBase" => ClassROUTE(classes, c) # ""

\* a class that omits ROUTE under a base that has one was declared, and exists
C8_Witness ==
    /\ decl.kind = "class" /\ decl.name = "Bot" /\ decl.own = None
    /\ decl.base = Some("User") /\ decl.exc = ""
    /\ "Bot" \in DOMAIN classes

\* a class that omits ROUTE and inherits none was refused
C8_WitnessRefused ==
    /\ decl.kind = "class" /\ decl.name = "GuildMember" /\ decl.own = None
    /\ decl.base = Some("DiscordModelsBase") /\ decl.exc = "NotImplementedError"
    /\ "GuildMember" \notin DOMAIN classes

(***************************************************************************)
(* C1.  User.fetch_from_api caches the user and tells the session.         *)
(***************************************************************************)
\* C1: after every successful User.fetch_from_api() call, whatever its flags,
\* the users cache maps the fetched user's ID to the returned instance and the
\* session's DISCORD_USER_ID is that ID, so that User.get_from_cache() in the
\* same session returns that instance.
C1_FetchedUserIsCached ==
    (last.op = "User.fetch_from_api" /\ last.exc = "") =>
        /\ last.ret \in DOMAIN heap
        /\ heap[last.ret].id = ParseInt(account[last.sess])
        /\ heap[last.ret].id \in DOMAIN users_cache
        /\ users_cache[heap[last.ret].id] = last.ret
        /\ session[last.sess] = Some(heap[last.ret].id)
        /\ UserGetFromCache(Machine, last.sess).ret = Some(last.ret)

\* a call with flags succeeded, replacing an instance cached before
C1_Witness ==
    /\ last.op = "User.fetch_from_api" /\ last.exc = ""
    /\ last.flags.guilds /\ last.flags.connections
    /\ last.ret = 2 /\ users_cache[heap[2].id] = 2

(***************************************************************************)
(* C2.  The eager fetch of guild members.                                  *)
(***************************************************************************)
\* the guild IDs of a guild list
GuildIdsOf(guild_list) == { guild_list[i].id : i \in 1..Len(guild_list) }

\* the requests for a guild member among the requests rqs
MemberRequests(rqs) ==
    { i \in 1..Len(rqs) : rqs[i].route.template = GuildMemberClass.ROUTE }

\* C2: unless the remote API fails, User.fetch_from_api(guilds=True,
\* members=True) completes and returns a User whose guilds cache holds the
\* fetched guilds and whose guild_members holds a GuildMember for each of them;
\* with members=True and guilds=False no guild member is fetched.
C2_EagerMembers ==
    /\ ( /\ last.op = "User.fetch_from_api"
         /\ last.flags.guilds /\ last.flags.members
         /\ last.exc # "HTTPError" ) =>
            /\ last.exc = ""
            /\ heap[last.ret]._guilds # None
            /\ DOMAIN heap[last.ret]._guild_members =
                  GuildIdsOf(guilds(heap[last.ret])[1])
            /\ \A g \in DOMAIN heap[last.ret]._guild_members :
                  heap[last.ret]._guild_members[g].guild_id = g
    /\ ( /\ last.op = "User.fetch_from_api"
         /\ ~last.flags.guilds /\ last.flags.members ) =>
            MemberRequests(last.http) = {}

(***************************************************************************)
(* C3.  fetch_guilds() followed by fetch_guild_members().                  *)
(***************************************************************************)
\* fetch_guilds() returned on an instance, and fetch_guild_members() is the very
\* next call, on the same instance, and returns
GuildsThenMembers ==
    /\ last.op = "fetch_guilds" /\ last.exc = ""
    /\ last'.op = "fetch_guild_members" /\ last'.exc = ""
    /\ last'.self = last.self

\* C3 as stated: fetch_guilds() then fetch_guild_members() leaves guild_members
\* with exactly one entry per guild that fetch_guilds() returned, keyed by the
\* guild's ID, and no entry for any other guild ID.
C3_ExactlyTheFetchedGuilds ==
    [][ GuildsThenMembers =>
          /\ DOMAIN heap'[last.self]._guild_members = GuildIdsOf(last.ret[1])
          /\ \A g \in GuildIdsOf(last.ret[1]) :
                heap'[last.self]._guild_members[g].guild_id = g ]_vars

\* C3 amended: fetch_guilds() then fetch_guild_members() leaves guild_members
\* with one entry per guild that fetch_guilds() returned, keyed by the guild's
\* ID, next to the entries it already held for other guild IDs, which stay as
\* they were; the value returned is that mapping.
C3_FetchedGuildsMergedIn ==
    [][ GuildsThenMembers =>
          /\ DOMAIN heap'[last.self]._guild_members =
                DOMAIN heap[last.self]._guild_members \cup GuildIdsOf(last.ret[1])
          /\ \A g \in GuildIdsOf(last.ret[1]) :
                heap'[last.self]._guild_members[g].guild_id = g
          /\ \A g \in DOMAIN heap[last.self]._guild_members \ GuildIdsOf(last.ret[1]) :
                heap'[last.self]._guild_members[g] = heap[last.self]._guild_members[g]
          /\ last'.ret = heap'[last.self]._guild_members ]_vars

\* fetch_guild_members() returned on an instance with a guild cached, one member
\* request per guild, and the mapping still holds an entry for another guild
C3_Witness ==
    /\ last.op = "fetch_guild_members" /\ last.exc = ""
    /\ guilds(heap[last.self]) # None /\ guilds(heap[last.self])[1] # <<>>
    /\ Len(last.http) = Len(guilds(heap[last.self])[1])
    /\ GuildIdsOf(guilds(heap[last.self])[1]) \subseteq DOMAIN heap[last.self]._guild_members
    /\ DOMAIN heap[last.self]._guild_members # GuildIdsOf(guilds(heap[last.self])[1])

(***************************************************************************)
(* C4.  fetch_guild_members() without cached guilds.                       *)
(***************************************************************************)
\* C4: fetch_guild_members() on a User with no cached guilds (never fetched, or
\* fetched and empty) issues no HTTP request, raises no error, and returns the
\* mapping, which is empty when no member had been cached before.
C4_NoGuildsNoOp ==
    ( /\ last.op = "fetch_guild_members"
      /\ (heap[last.self]._guilds = None \/ heap[last.self]._guilds = Some(<<>>)) ) =>
        /\ last.http = <<>>
        /\ last.exc = ""
        /\ last.ret = heap[last.self]._guild_members

\* C4, the part the code meets: with guilds fetched and empty the call is a no-op
C4_EmptyGuildsNoOp ==
    (last.op = "fetch_guild_members" /\ heap[last.self]._guilds = Some(<<>>)) =>
        /\ last.http = <<>>
        /\ last.exc = ""
        /\ last.ret = heap[last.self]._guild_members

(***************************************************************************)
(* C5.  add_to_guild and the access token.                                 *)
(***************************************************************************)
\* C5: without an access_token in the session's token mapping add_to_guild ends
\* in Unauthorized and has issued no request; with the token it issues exactly
\* one bot request, PUT /guilds/{guild_id}/members/{user_id}.
C5_UnauthorizedBeforeAnyRequest ==
    last.op = "add_to_guild" =>
        IF "access_token" \notin DOMAIN last.token
        THEN last.exc = "Unauthorized" /\ last.http = <<>>
        ELSE /\ Len(last.http) = 1
             /\ last.http[1].bot /\ last.http[1].method = "PUT"
             /\ last.http[1].route =
                   [ template |-> "/guilds/{guild_id}/members/{user_id}",
                     guild_id |-> Some(last.guild_id),
                     user_id  |-> heap[last.self].id ]
             /\ last.exc \in {"", "HTTPError"}

\* add_to_guild was called in a session whose token mapping has no access_token
C5_Witness ==
    /\ last.op = "add_to_guild" /\ "access_token" \notin DOMAIN last.token
    /\ last.exc = "Unauthorized"

(***************************************************************************)
(* C6.  GuildMember.fetch_from_api and the cached User.                    *)
(***************************************************************************)
\* C6: GuildMember.fetch_from_api(guild_id, cache=True) stores the fetched
\* member under guild_id in the guild_members of the User cached for the
\* session's user ID and changes nothing else; with no User cached for the
\* session it returns the member and changes no cached state; with cache=False,
\* or when it raises, it changes no cached User.
C6_MemberCachedForSessionUser ==
    [][ last'.op = "GuildMember.fetch_from_api" =>
          /\ users_cache' = users_cache
          /\ session' = session
          /\ IF /\ last'.exc = "" /\ last'.cache
                /\ session[last'.sess] # None
                /\ session[last'.sess][1] \in DOMAIN users_cache
             THEN /\ last'.ret.guild_id = last'.guild_id
                  /\ heap' = [heap EXCEPT
                                ![users_cache[session[last'.sess][1]]]._guild_members =
                                    (last'.guild_id :> last'.ret) @@ @]
             ELSE heap' = heap
          /\ last'.exc = "" =>
                /\ last'.ret.guild_id = last'.guild_id
                /\ last'.ret.id = ParseInt(account[last'.sess]) ]_vars

\* a member fetched with cache=True is in the session user's guild_members
C6_Witness ==
    /\ last.op = "GuildMember.fetch_from_api" /\ last.exc = "" /\ last.cache
    /\ session[last.sess] # None
    /\ heap[users_cache[session[last.sess][1]]]._guild_members[last.guild_id] = last.ret

\* a member fetched with cache=True in a session for which no User is cached
C6_WitnessNoUser ==
    /\ last.op = "GuildMember.fetch_from_api" /\ last.exc = "" /\ last.cache
    /\ session[last.sess] = None
    /\ users_cache # <<>>

(***************************************************************************)
(* C9.  One instance per user ID in the users cache.                       *)
(***************************************************************************)
\* C9 as stated: a User instance is created once per user ID and reused: the
\* cache entry of an ID stays the instance the first User.fetch_from_api()
\* created for it.
C9_InstanceCreatedOnce ==
    [][ \A id \in DOMAIN users_cache :
           id \in DOMAIN users_cache' /\ users_cache'[id] = users_cache[id] ]_vars

\* C9 amended: the users cache holds one User instance per user ID, the one the
\* latest User.fetch_from_api() that got the user created: each such call puts
\* a new instance under the ID, replacing the one before with what it had
\* cached; the new instance has no guilds, guild members or connections but
\* those the call's own flags fetched.  No other operation replaces or removes
\* an entry.
C9_LatestFetchReplaces ==
    [][ /\ DOMAIN users_cache \subseteq DOMAIN users_cache'
        /\ \A id \in DOMAIN users_cache' :
              (id \notin DOMAIN users_cache \/ users_cache'[id] # users_cache[id]) =>
                  /\ last'.op = "User.fetch_from_api"
                  /\ users_cache'[id] = allocated + 1
                  /\ users_cache'[id] \notin DOMAIN heap
                  /\ heap'[users_cache'[id]].id = id
                  /\ ~last'.flags.guilds => heap'[users_cache'[id]]._guilds = None
                  /\ ~last'.flags.connections =>
                        heap'[users_cache'[id]].connections = None
                  /\ ~(last'.flags.guilds /\ last'.flags.members) =>
                        heap'[users_cache'[id]]._guild_members = <<>>
        /\ (last'.op = "User.fetch_from_api" /\ last'.exc = "") =>
              /\ last'.ret = allocated + 1
              /\ users_cache'[ParseInt(account[last'.sess])] = last'.ret ]_vars

\* a second fetch for the same user ID replaced the instance of the first
C9_Witness ==
    /\ last.op = "User.fetch_from_api" /\ last.exc = ""
    /\ allocated = 2 /\ DOMAIN users_cache = {ParseInt(account[last.sess])}
    /\ users_cache[ParseInt(account[last.sess])] = 2
    /\ DOMAIN heap = {2}
    /\ heap[2]._guilds = None

(***************************************************************************)
(* C10.  Concurrent requests of different users.                           *)
(***************************************************************************)
\* the user ID of the account request r acts for
UserOf(r) == ParseInt(account[SessionOf(r)])

\* C10: under any interleaving of requests that belong to sessions of different
\* user IDs, every step of an operation of one request leaves the cache entry
\* of every other user, the instance it refers to with its guild and
\* guild-member mappings, and the other session's user ID unchanged.
C10_OtherUsersUntouched ==
    [][ \A r \in Requests :
          ( /\ req'[r] # req[r]
            /\ \A o \in Requests \ {r} : UserOf(o) # UserOf(r) ) =>
              /\ \A id \in DOMAIN users_cache \ {UserOf(r)} :
                    /\ id \in DOMAIN users_cache'
                    /\ users_cache'[id] = users_cache[id]
                    /\ heap'[users_cache'[id]] = heap[users_cache[id]]
              /\ \A o \in Requests \ {r} :
                    session'[SessionOf(o)] = session[SessionOf(o)] ]_vars

\* one user's request has fetched guild members and returned while the other
\* user's request is inside fetch_guild_members(); both users are cached, each
\* with a guild member of its own
C10_Witness ==
    /\ account["s1"] # account["s2"]
    /\ req["r1"].pc = "idle" /\ req["r2"].pc = "each"
    /\ DOMAIN users_cache = {UserOf("r1"), UserOf("r2")}
    /\ heap[users_cache[UserOf("r1")]]._guild_members # <<>>
    /\ heap[users_cache[UserOf("r2")]]._guild_members # <<>>
    /\ \A g \in DOMAIN heap[users_cache[UserOf("r2")]]._guild_members :
          heap[users_cache[UserOf("r2")]]._guild_members[g].id = UserOf("r2")

(***************************************************************************)
(* C11.  fetch_guild_member(guild_id) changes one entry.                   *)
(***************************************************************************)
\* C11: fetch_guild_member(guild_id) issues one member request for guild_id;
\* when it succeeds it sets the guild_members entry for guild_id to the fetched
\* member, inserting or overwriting, returns that member, and leaves every
\* entry for another guild ID, the guilds cache and the connections list
\* unchanged; when the request fails the mapping is unchanged.  No other
\* instance, cache entry or session changes.
C11_OnlyThatEntryChanges ==
    [][ last'.op = "fetch_guild_member" =>
          /\ Len(last'.http) = 1
          /\ ~last'.http[1].bot /\ last'.http[1].method = "GET"
          /\ last'.http[1].route = [ template |-> GuildMemberClass.ROUTE,
                                     guild_id |-> Some(last'.guild_id) ]
          /\ users_cache' = users_cache
          /\ session' = session
          /\ \A i \in DOMAIN heap \ {last'.self} : i \in DOMAIN heap' /\ heap'[i] = heap[i]
          /\ heap'[last'.self]._guilds = heap[last'.self]._guilds
          /\ heap'[last'.self].connections = heap[last'.self].connections
          /\ IF last'.exc = ""
             THEN /\ last'.ret.guild_id = last'.guild_id
                  /\ DOMAIN heap'[last'.self]._guild_members =
                        DOMAIN heap[last'.self]._guild_members \cup {last'.guild_id}
                  /\ heap'[last'.self]._guild_members[last'.guild_id] = last'.ret
                  /\ \A g \in DOMAIN heap[last'.self]._guild_members \ {last'.guild_id} :
                        heap'[last'.self]._guild_members[g] =
                           heap[last'.self]._guild_members[g]
             ELSE /\ last'.exc = "HTTPError"
                  /\ heap'[last'.self]._guild_members = heap[last'.self]._guild_members
        ]_vars

\* fetch_guild_member(guild_id) returned a member that differs from the one the
\* mapping held for guild_id, on an instance with guilds and connections cached
\* and an entry for another guild
C11_Witness ==
    /\ last.op = "fetch_guild_member" /\ last.exc = ""
    /\ "before" \in DOMAIN last
    /\ last.guild_id \in DOMAIN last.before
    /\ last.before[last.guild_id] # last.ret
    /\ heap[last.self]._guild_members[last.guild_id] = last.ret
    /\ DOMAIN heap[last.self]._guild_members = GuildIds
    /\ heap[last.self]._guilds # None
    /\ heap[last.self].connections # None

\* fetch_guild_member(guild_id) failed on an instance that holds an entry for
\* guild_id
C11_WitnessFailed ==
    /\ last.op = "fetch_guild_member" /\ last.exc = "HTTPError"
    /\ "before" \in DOMAIN last
    /\ last.guild_id \in DOMAIN last.before
    /\ heap[last.self]._guild_members = last.before

(***************************************************************************)
(* C12.  fetch_guilds() replaces the guild cache: the last write wins.     *)
(***************************************************************************)
\* the ID-to-Guild mapping built from the guild list `payload`
GuildsBuiltFrom(payload) == Some(GuildDict(ConstructMany(GuildClass, payload).val))

\* C12: under any interleaving of fetch_guilds() calls, the guild cache of an
\* instance changes only when a guild list arrives for a call on it, and is
\* then exactly the ID-to-Guild mapping built from that response: it holds the
\* guilds of that response and no other, whatever it held before and whatever
\* responses arrived earlier (an instance that no request and no cache entry
\* refers to any more is gone, and has no guild cache to speak of).
C12_LastWriteWins ==
    [][ /\ \A i \in DOMAIN heap \cap DOMAIN heap' :
              heap'[i]._guilds # heap[i]._guilds => (last' # last /\ last'.self = i)
        /\ \A i \in DOMAIN heap' \ DOMAIN heap : heap'[i]._guilds = None
        /\ last' # last =>
              /\ last'.op = "fetch_guilds"
              /\ last'.self \in DOMAIN heap' =>
                    /\ heap'[last'.self]._guilds = GuildsBuiltFrom(last'.payload)
                    /\ GuildIdsOf(guilds(heap'[last'.self])[1]) =
                          { ParseInt(last'.payload[k]["id"]) : k \in 1..Len(last'.payload) }
      ]_vars

\* two fetch_guilds() calls on the same cached User ran concurrently; the one
\* that assigned last got a list without a guild that the earlier list had,
\* and the guild cache holds the later list only
C12_Witness ==
    /\ last.op = "fetch_guilds" /\ last.before # None
    /\ last.before[1].self = last.self /\ last.before[1].req # last.req
    /\ \E k \in 1..Len(last.before[1].payload) :
          \A j \in 1..Len(last.payload) : last.payload[j] # last.before[1].payload[k]
    /\ last.payload # <<>>
    /\ \E o \in Requests \ {last.req} :
          /\ req[o].pc = "guilds" /\ req[o].op = "fetch_guilds" /\ req[o].self = last.self
    /\ last.self \in DOMAIN heap
    /\ heap[last.self]._guilds = GuildsBuiltFrom(last.payload)

====
